---- MODULE Spec2Model ----
(***************************************************************************)
(* Model of the Coralogix EKS Fargate mock-log tools:                      *)
(*   generate_coralogix_logs.py  (the Generator) and                       *)
(*   analyze_logs.py             (the Analyzer).                           *)
(* The two programs are independent one-shot batch jobs; GenSpec is the    *)
(* Generator's run, AnaSpec the Analyzer's run over a file of a bounded    *)
(* family of contents.                                                     *)
(***************************************************************************)
EXTENDS Integers, Sequences, FiniteSets, TLC

VARIABLES
    files,        \* the file system: file name -> content (absent names are missing files)
    gen_pc,       \* Generator: position in main()
    gen_i,        \* Generator: the loop variable i of main()
    logs,         \* Generator: the list `logs` of main()
    argv,         \* Analyzer: sys.argv[1:]
    ana_pc,       \* Analyzer: position in main() / analyze_logs()
    ana_logs,     \* Analyzer: the value load_logs() returned
    ana_idx,      \* Analyzer: number of elements the loop of analyze_logs() has consumed
    analysis,     \* Analyzer: the `analysis` dict of analyze_logs()
    timestamps,   \* Analyzer: the `timestamps` list of analyze_logs()
    console,      \* Analyzer: the classes of the lines printed so far (stdout and stderr)
    exit_status   \* Analyzer: process exit status (-1 while running)

vars == <<files, gen_pc, gen_i, logs, argv, ana_pc, ana_logs, ana_idx,
          analysis, timestamps, console, exit_status>>

gen_vars == <<gen_pc, gen_i, logs>>
ana_vars == <<argv, ana_pc, ana_logs, ana_idx, analysis, timestamps, console, exit_status>>

-----------------------------------------------------------------------------
(* Bounds *)

\* Number of records a Generator run builds (the code's range(1000), bounded).
NumLogs == 2

\* Longest input list the Analyzer is run on.
MaxInput == 3

-----------------------------------------------------------------------------
(* Strings: Python str operations used by both programs *)

Digits == "0123456789"

\* str(n) for one decimal digit
DigitStr(d) == SubSeq(Digits, d + 1, d + 1)

RECURSIVE IntToStr(_)
\* str(n) for n >= 0
IntToStr(n) == IF n < 10 THEN DigitStr(n) ELSE IntToStr(n \div 10) \o DigitStr(n % 10)

RECURSIVE ZeroPad(_, _)
\* zero-padded decimal of a fixed width, as strftime's %H, %M, %S, %d, %m, %Y, %f
ZeroPad(n, width) ==
    IF width = 0 THEN ""
    ELSE ZeroPad(n \div 10, width - 1) \o DigitStr(n % 10)

\* `w in s` of Python: substring test
Contains(s, w) ==
    \E k \in 1..(Len(s) - Len(w) + 1) : SubSeq(s, k, k + Len(w) - 1) = w

RECURSIVE Replace(_, _, _)
\* s.replace(old, new) for a one-character old
Replace(s, old, new) ==
    IF s = "" THEN ""
    ELSE (IF SubSeq(s, 1, 1) = old THEN new ELSE SubSeq(s, 1, 1))
            \o Replace(SubSeq(s, 2, Len(s)), old, new)

\* s.split('-')[0]
SplitFirst(s, sep) ==
    IF Contains(s, sep)
    THEN LET k == CHOOSE j \in 1..Len(s) :
                    /\ SubSeq(s, j, j) = sep
                    /\ \A m \in 1..(j - 1) : SubSeq(s, m, m) # sep
         IN SubSeq(s, 1, k - 1)
    ELSE s

\* Printable ASCII in code-point order, in two runs: 32..95 and 97..126.
AsciiLow == " !\"#$%&'(" \o "*+,-./0123456789:;<=>?@ABCDEFGHIJKLMNOPQRSTUVWXYZ[\\]^_"

AsciiHigh == "abcdefghijklmnopqrstuvwxyz{|}~"

Chars == {SubSeq(AsciiLow, k, k) : k \in 1..Len(AsciiLow)}
            \cup {SubSeq(AsciiHigh, k, k) : k \in 1..Len(AsciiHigh)}

\* ord(c) for every character of the two runs
OrdTable ==
    [c \in Chars |->
        IF \E k \in 1..Len(AsciiLow) : SubSeq(AsciiLow, k, k) = c
        THEN 31 + (CHOOSE k \in 1..Len(AsciiLow) : SubSeq(AsciiLow, k, k) = c)
        ELSE 96 + (CHOOSE k \in 1..Len(AsciiHigh) : SubSeq(AsciiHigh, k, k) = c)] @@ <<>>

\* ord(c): the code point of the character c
Ord(c) == OrdTable[c]

RECURSIVE FirstDiff(_, _, _, _)
\* The first position in lo..hi where a and b differ; they do differ there. The
\* search halves the range: the left half when it holds a difference, else the right.
FirstDiff(a, b, lo, hi) ==
    IF lo = hi THEN lo
    ELSE LET mid == (lo + hi) \div 2
         IN IF SubSeq(a, lo, mid) # SubSeq(b, lo, mid)
            THEN FirstDiff(a, b, lo, mid)
            ELSE FirstDiff(a, b, mid + 1, hi)

\* a < b of Python str: lexicographic by code point
StrLess(a, b) ==
    LET n == IF Len(a) < Len(b) THEN Len(a) ELSE Len(b)
    IN IF SubSeq(a, 1, n) = SubSeq(b, 1, n) THEN Len(a) < Len(b)
       ELSE LET k == FirstDiff(a, b, 1, n)
            IN Ord(SubSeq(a, k, k)) < Ord(SubSeq(b, k, k))

StrLeq(a, b) == a = b \/ StrLess(a, b)

-----------------------------------------------------------------------------
(* Random draws *)

\* random.choice(seq): any element of the list
Choice(seq) == {seq[k] : k \in DOMAIN seq}

\* A random.choice whose value no property reads: its first element stands for the draw.
Sample(seq) == {seq[1]}

\* random.randint(lo, hi): only the digits of the text depend on it; lo stands for the draw.
RandInt(lo, hi) == {lo}

RECURSIVE Repeat(_, _)
Repeat(c, n) == IF n = 0 THEN "" ELSE c \o Repeat(c, n - 1)

\* generate_random_id(length): one string of the alphabet of that length stands for the draw
generate_random_id(length) == {Repeat("a", length)}

\* generate_container_id()
generate_container_id == {"containerd://" \o id : id \in generate_random_id(64)}

-----------------------------------------------------------------------------
(* Generator: constants of generate_coralogix_logs.py *)

\* BASE_TIME = datetime(2025, 7, 1, 7, 0, 0)
BASE_TIME == [year |-> 2025, month |-> 7, day |-> 1, hour |-> 7, minute |-> 0,
              second |-> 0, microsecond |-> 0]

AppNames == <<"web-frontend", "user-service", "payment-service", "kube-system",
              "monitoring", "database", "redis", "logging", "istio-system",
              "cert-manager">>

APPLICATIONS ==
    ("web-frontend" :> [containers |-> <<"nginx", "app">>, namespace |-> "web-frontend",
                        pod_prefix |-> "nginx-deployment-7d4c8f9b6d", host_ip |-> "172.31.45.123"])
 @@ ("user-service" :> [containers |-> <<"app", "istio-proxy">>, namespace |-> "user-service",
                        pod_prefix |-> "user-service-deployment-5f8b9c7d6e", host_ip |-> "172.31.45.124"])
 @@ ("payment-service" :> [containers |-> <<"app", "istio-proxy">>, namespace |-> "payment-service",
                        pod_prefix |-> "payment-service-deployment-8e9f0a1b2c", host_ip |-> "172.31.45.127"])
 @@ ("kube-system" :> [containers |-> <<"coredns", "aws-load-balancer-controller">>, namespace |-> "kube-system",
                        pod_prefix |-> "coredns-5d78c9899d", host_ip |-> "172.31.45.125"])
 @@ ("monitoring" :> [containers |-> <<"prometheus", "grafana">>, namespace |-> "monitoring",
                        pod_prefix |-> "prometheus-server-7c8d9e0f1g", host_ip |-> "172.31.45.126"])
 @@ ("database" :> [containers |-> <<"postgres", "postgres-exporter">>, namespace |-> "database",
                        pod_prefix |-> "postgres-primary", host_ip |-> "172.31.45.130"])
 @@ ("redis" :> [containers |-> <<"redis", "redis-exporter">>, namespace |-> "redis",
                        pod_prefix |-> "redis-master", host_ip |-> "172.31.45.131"])
 @@ ("logging" :> [containers |-> <<"fluent-bit">>, namespace |-> "logging",
                        pod_prefix |-> "fluent-bit-daemonset", host_ip |-> "172.31.45.132"])
 @@ ("istio-system" :> [containers |-> <<"istio-proxy", "pilot">>, namespace |-> "istio-system",
                        pod_prefix |-> "istio-proxy", host_ip |-> "172.31.45.128"])
 @@ ("cert-manager" :> [containers |-> <<"cert-manager", "webhook">>, namespace |-> "cert-manager",
                        pod_prefix |-> "cert-manager-5s6t7u8v9w", host_ip |-> "172.31.45.134"])

Severities == <<"INFO", "WARN", "ERROR">>

(* A template is the list of the pieces of the Python format string: a piece  *)
(* "{name}" is a replacement field, any other piece is literal text (with the *)
(* format string's "{{" and "}}" already written as "{" and "}").             *)
LOG_TEMPLATES ==
    ("nginx" :> [
        INFO |-> <<
            <<"172.31.45.", "{ip}", " - - [", "{timestamp}", "] \"GET /health HTTP/1.1\" 200 2 \"-\" \"kube-probe/1.28\"">>,
            <<"172.31.45.", "{ip}", " - - [", "{timestamp}", "] \"GET /api/users HTTP/1.1\" 200 1234 \"-\" \"Mozilla/5.0\"">>,
            <<"172.31.45.", "{ip}", " - - [", "{timestamp}", "] \"POST /api/login HTTP/1.1\" 200 567 \"-\" \"curl/7.68.0\"">> >>,
        ERROR |-> <<
            <<"[error] 1#1: *", "{id}", " connect() failed (111: Connection refused) while connecting to upstream">>,
            <<"[error] 1#1: *", "{id}", " upstream timed out (110: Connection timed out) while connecting to upstream">>,
            <<"[error] 1#1: *", "{id}", " no live upstreams while connecting to upstream">> >> ])
 @@ ("app" :> [
        INFO |-> <<
            <<"{\"level\":\"info\",\"msg\":\"Starting ", "{service}", " service\",\"version\":\"v", "{version}", "\",\"port\":", "{port}", "}">>,
            <<"{\"level\":\"info\",\"msg\":\"Processing request\",\"request_id\":\"req-", "{id}", "\",\"user_id\":\"user-", "{user_id}", "\"}">>,
            <<"{\"level\":\"info\",\"msg\":\"Request completed\",\"request_id\":\"req-", "{id}", "\",\"duration_ms\":", "{duration}", "}">> >>,
        ERROR |-> <<
            <<"{\"level\":\"error\",\"msg\":\"Database connection failed\",\"error\":\"dial tcp 172.31.45.200:5432: connect: connection refused\",\"retry_count\":", "{retry}", "}">>,
            <<"{\"level\":\"error\",\"msg\":\"Request failed\",\"request_id\":\"req-", "{id}", "\",\"error\":\"", "{error}", "\",\"status_code\":", "{status}", "}">>,
            <<"{\"level\":\"error\",\"msg\":\"Timeout occurred\",\"request_id\":\"req-", "{id}", "\",\"timeout_ms\":", "{timeout}", "}">> >> ])
 @@ ("coredns" :> [
        INFO |-> <<
            <<"[INFO] 172.31.45.", "{ip}", ":53 - ", "{id}", " \"A IN ", "{domain}", ". udp 32 false 512\" NOERROR qr,rd,ra 76 0.", "{duration}", "s">>,
            <<"[INFO] 172.31.45.", "{ip}", ":53 - ", "{id}", " \"AAAA IN ", "{domain}", ". udp 32 false 512\" NOERROR qr,rd,ra 76 0.", "{duration}", "s">> >>,
        ERROR |-> <<
            <<"[ERROR] plugin/errors: 2 ", "{domain}", ". A: read udp 172.31.45.", "{ip}", ":53->8.8.8.8:53: i/o timeout">>,
            <<"[ERROR] plugin/errors: 2 ", "{domain}", ". A: no such host">> >> ])
 @@ ("postgres" :> [
        INFO |-> <<
            <<"LOG:  connection received: host=172.31.45.", "{ip}", " port=", "{port}">>,
            <<"LOG:  connection authorized: user=", "{user}", " database=", "{db}">>,
            <<"LOG:  statement: SELECT * FROM ", "{table}", " WHERE id = ", "{id}">> >>,
        ERROR |-> <<
            <<"ERROR:  relation \"", "{table}", "\" does not exist at character ", "{pos}">>,
            <<"ERROR:  duplicate key value violates unique constraint \"", "{constraint}", "\"">>,
            <<"FATAL:  password authentication failed for user \"", "{user}", "\"">> >> ])
 @@ ("redis" :> [
        INFO |-> <<
            <<"* Ready to accept connections">>,
            <<"* DB loaded from disk: ", "{time}", " seconds">>,
            <<"* Background saving started by pid ", "{pid}">> >>,
        WARN |-> <<
            <<"# WARNING: The TCP backlog setting of 511 cannot be enforced because /proc/sys/net/core/somaxconn is set to the lower value of 128.">>,
            <<"# WARNING: overcommit_memory is set to 0! Background save may fail under low memory condition.">> >> ])
 @@ ("fluent-bit" :> [
        INFO |-> <<
            <<"[engine] started (pid=1)">>,
            <<"[input:tail:tail.0] inotify_fs_add(): inode=", "{inode}", " watch_fd=", "{fd}", " name=/var/log/containers/", "{container}", ".log">>,
            <<"[output:http:http.0] coralogix.com:443, HTTP status=200 OK">> >>,
        ERROR |-> <<
            <<"[output:http:http.0] coralogix.com:443, HTTP status=429 Too Many Requests">>,
            <<"[output:http:http.0] coralogix.com:443, HTTP status=500 Internal Server Error">>,
            <<"[input:tail:tail.0] error scanning path /var/log/containers/*.log">> >> ])
 @@ ("istio-proxy" :> [
        INFO |-> <<
            <<"\"GET /api/users HTTP/1.1\" 200 - 0 ", "{size}", " ", "{duration}", " - \"172.31.45.", "{ip}", "\" \"Mozilla/5.0\" \"", "{trace_id}", "\" \"", "{service}", ".", "{namespace}", ".svc.cluster.local:", "{port}", "\" \"172.31.45.", "{target_ip}", ":", "{port}", "\"">> >>,
        ERROR |-> <<
            <<"\"GET /api/users HTTP/1.1\" 503 UF,URX upstream_reset_before_response_started{connection_failure} - \"-\" 0 95 ", "{duration}", " - \"172.31.45.", "{ip}", "\" \"Mozilla/5.0\" \"", "{trace_id}", "\" \"", "{service}", ".", "{namespace}", ".svc.cluster.local:", "{port}", "\" \"172.31.45.", "{target_ip}", ":", "{port}", "\"">> >> ])

-----------------------------------------------------------------------------
(* Generator: datetime arithmetic and formatting *)

\* dt + timedelta(seconds=n); the day carries, a month's end is not reached by
\* the indexes of a run (n < 1000 from 07:00:00 on the 1st).
AddSeconds(dt, n) ==
    LET total == dt.hour * 3600 + dt.minute * 60 + dt.second + n
        inday == total % 86400
    IN [dt EXCEPT !.day = dt.day + (total \div 86400),
                  !.hour = inday \div 3600,
                  !.minute = (inday % 3600) \div 60,
                  !.second = inday % 60]

MonthAbbr == <<"Jan", "Feb", "Mar", "Apr", "May", "Jun", "Jul", "Aug", "Sep", "Oct",
               "Nov", "Dec">>

\* dt.strftime("%Y-%m-%dT%H:%M:%S.%f")
StrftimeIso(dt) ==
    ZeroPad(dt.year, 4) \o "-" \o ZeroPad(dt.month, 2) \o "-" \o ZeroPad(dt.day, 2)
        \o "T" \o ZeroPad(dt.hour, 2) \o ":" \o ZeroPad(dt.minute, 2) \o ":"
        \o ZeroPad(dt.second, 2) \o "." \o ZeroPad(dt.microsecond, 6)

\* dt.strftime("%d/%b/%Y:%H:%M:%S +0000")
StrftimeClf(dt) ==
    ZeroPad(dt.day, 2) \o "/" \o MonthAbbr[dt.month] \o "/" \o ZeroPad(dt.year, 4)
        \o ":" \o ZeroPad(dt.hour, 2) \o ":" \o ZeroPad(dt.minute, 2) \o ":"
        \o ZeroPad(dt.second, 2) \o " +0000"

\* The offset subtracted instead of added.
EntryTime_Subtract(index) == AddSeconds(BASE_TIME, 0 - index)

\* timestamp = BASE_TIME + timedelta(seconds=index)
EntryTime(index) == AddSeconds(BASE_TIME, index)

\* timestamp_str = timestamp.strftime("%Y-%m-%dT%H:%M:%S.%f")[:-3] + "Z"
TimestampStr(index) ==
    LET iso == StrftimeIso(EntryTime(index))
    IN SubSeq(iso, 1, Len(iso) - 3) \o "Z"

-----------------------------------------------------------------------------
(* Generator: the random draws of one generate_log_entry call *)

ErrorChoices == <<"timeout", "connection refused", "invalid request", "unauthorized">>
StatusChoices == <<400, 401, 403, 404, 500, 502, 503, 504>>
PortChoices == <<8080, 3000, 5432, 6379, 9090>>
DomainChoices == <<"example.com", "api.example.com", "db.example.com">>
UserChoices == <<"postgres", "app_user", "readonly">>
DbChoices == <<"users", "products", "orders">>
TableChoices == <<"users", "products", "orders", "sessions">>
ConstraintChoices == <<"users", "products", "orders">>
EnvironmentChoices == <<"production", "staging", "development">>

\* f"{random.randint(1,3)}.{random.randint(0,9)}.{random.randint(0,9)}"
VersionDraws ==
    {IntToStr(a) \o "." \o IntToStr(b) \o "." \o IntToStr(c) :
        a \in RandInt(1, 3), b \in RandInt(0, 9), c \in RandInt(0, 9)}

\* The keyword arguments of template.format(...) that are drawn at random.
FillDraws ==
    [ip : RandInt(100, 200), id : RandInt(1000, 9999), version : VersionDraws,
     port : Sample(PortChoices), user_id : RandInt(10000, 99999),
     duration : RandInt(10, 5000), retry : RandInt(1, 5),
     error : Choice(ErrorChoices), status : Sample(StatusChoices),
     timeout : RandInt(1000, 30000), domain : Sample(DomainChoices),
     user : Sample(UserChoices), db : Sample(DbChoices), table : Sample(TableChoices),
     pos : RandInt(10, 100), constraint : Sample(ConstraintChoices),
     time : {"0.1"}, pid : RandInt(1000, 9999), inode : RandInt(100000, 999999),
     fd : RandInt(10, 99), container : generate_random_id(8),
     size : RandInt(100, 10000),
     trace_id : {a \o "-" \o b \o "-" \o c : a \in generate_random_id(8),
                    b \in generate_random_id(4), c \in generate_random_id(4)},
     target_ip : RandInt(100, 200)]

\* LOG_TEMPLATES[container_name].get(severity, LOG_TEMPLATES[container_name]["INFO"])
\* The severity ignored: always the container's INFO pool.
Templates_IgnoreSeverity(container_name, severity) == LOG_TEMPLATES[container_name]["INFO"]

Templates(container_name, severity) ==
    IF severity \in DOMAIN LOG_TEMPLATES[container_name]
    THEN LOG_TEMPLATES[container_name][severity]
    ELSE LOG_TEMPLATES[container_name]["INFO"]

\* The positions random.choice(templates) can pick (0: no template is drawn).
TemplateDraws(container_name, severity) ==
    IF container_name \in DOMAIN LOG_TEMPLATES
    THEN DOMAIN Templates(container_name, severity)
    ELSE {0}

\* The container drawn from the whole catalog instead of the chosen application's list.
AppContainerPairs_AnyContainer ==
    {<<a, c>> : a \in Choice(AppNames),
                c \in UNION {Choice(APPLICATIONS[b].containers) : b \in Choice(AppNames)}}

AppContainerPairs ==
    UNION {{<<a, c>> : c \in Choice(APPLICATIONS[a].containers)} : a \in Choice(AppNames)}

\* random.choices(["INFO", "WARN", "ERROR"], weights=[70, 20, 10])[0]
SeverityDraws == Choice(Severities)

Draws ==
    UNION {{[app_name |-> p[1], container_name |-> p[2], severity |-> sev,
             template |-> t, fill |-> f, pod_suffix |-> ps, container_id |-> cid,
             label_version |-> "v" \o v, environment |-> e] :
                t \in TemplateDraws(p[2], sev), f \in FillDraws,
                ps \in generate_random_id(5), cid \in generate_container_id,
                v \in VersionDraws, e \in Sample(EnvironmentChoices)} :
           p \in AppContainerPairs, sev \in SeverityDraws}

-----------------------------------------------------------------------------
(* Generator: generate_log_entry *)

FieldNames == {"ip", "timestamp", "id", "service", "version", "port", "user_id",
               "duration", "retry", "error", "status", "timeout", "domain", "user",
               "db", "table", "pos", "constraint", "time", "pid", "inode", "fd",
               "container", "size", "trace_id", "namespace", "target_ip"}

\* The keyword arguments of template.format(...), as str.format renders them.
FillValue(name, index, d) ==
    CASE name = "ip" -> IntToStr(d.fill.ip)
      [] name = "timestamp" -> StrftimeClf(EntryTime(index))
      [] name = "id" -> IntToStr(d.fill.id)
      [] name = "service" -> SplitFirst(d.app_name, "-")
      [] name = "version" -> d.fill.version
      [] name = "port" -> IntToStr(d.fill.port)
      [] name = "user_id" -> IntToStr(d.fill.user_id)
      [] name = "duration" -> IntToStr(d.fill.duration)
      [] name = "retry" -> IntToStr(d.fill.retry)
      [] name = "error" -> d.fill.error
      [] name = "status" -> IntToStr(d.fill.status)
      [] name = "timeout" -> IntToStr(d.fill.timeout)
      [] name = "domain" -> d.fill.domain
      [] name = "user" -> d.fill.user
      [] name = "db" -> d.fill.db
      [] name = "table" -> d.fill.table
      [] name = "pos" -> IntToStr(d.fill.pos)
      [] name = "constraint" -> "pk_" \o d.fill.constraint
      [] name = "time" -> d.fill.time
      [] name = "pid" -> IntToStr(d.fill.pid)
      [] name = "inode" -> IntToStr(d.fill.inode)
      [] name = "fd" -> IntToStr(d.fill.fd)
      [] name = "container" -> d.app_name \o "-" \o d.fill.container
      [] name = "size" -> IntToStr(d.fill.size)
      [] name = "trace_id" -> d.fill.trace_id
      [] name = "namespace" -> APPLICATIONS[d.app_name].namespace
      [] name = "target_ip" -> IntToStr(d.fill.target_ip)

IsField(piece) ==
    /\ Len(piece) > 2
    /\ SubSeq(piece, 1, 1) = "{"
    /\ SubSeq(piece, Len(piece), Len(piece)) = "}"
    /\ SubSeq(piece, 2, Len(piece) - 1) \in FieldNames

RECURSIVE FormatFrom(_, _, _, _)
FormatFrom(template, k, index, d) ==
    IF k > Len(template) THEN ""
    ELSE (IF IsField(template[k])
          THEN FillValue(SubSeq(template[k], 2, Len(template[k]) - 1), index, d)
          ELSE template[k])
            \o FormatFrom(template, k + 1, index, d)

\* template.format(**kwargs)
Format(template, index, d) == FormatFrom(template, 1, index, d)

\* f"Generic log message for {container_name} at {timestamp_str}"
GenericText(container_name, index) ==
    "Generic log message for " \o container_name \o " at " \o TimestampStr(index)

\* log_text of generate_log_entry
LogText(index, d) ==
    IF d.container_name \in DOMAIN LOG_TEMPLATES
    THEN Format(Templates(d.container_name, d.severity)[d.template], index, d)
    ELSE GenericText(d.container_name, index)

generate_log_entry(index, d) ==
    LET app_config == APPLICATIONS[d.app_name]
        log_text == LogText(index, d)
    IN [timestamp |-> TimestampStr(index),
        applicationName |-> app_config.namespace,
        subsystemName |-> d.container_name,
        severity |-> d.severity,
        text |-> log_text,
        json |-> [
            kubernetes |-> [
                namespace_name |-> app_config.namespace,
                pod_name |-> app_config.pod_prefix \o "-" \o d.pod_suffix,
                container_name |-> d.container_name,
                container_id |-> d.container_id,
                host |-> "fargate-ip-" \o Replace(app_config.host_ip, ".", "-")
                            \o ".us-west-2.compute.internal",
                labels |-> [app |-> d.app_name, version |-> d.label_version,
                            environment |-> d.environment]],
            log |-> log_text,
            stream |-> IF d.severity = "INFO" THEN "stdout" ELSE "stderr",
            time |-> StrftimeIso(EntryTime(index)) \o "Z"]]

-----------------------------------------------------------------------------
(* Files and JSON documents *)

\* output_file of the Generator's main(), and the Analyzer's default log_file
OutputFile == "coralogix_eks_fargate_logs_1000.json"

NoFiles == [name \in {} |-> name]

\* A file whose text is the JSON array of `items` (json.dump / json.load of a list).
JsonList(items) == [kind |-> "json", type |-> "list", items |-> items, members |-> 0]

\* A file whose text is a JSON object of the given number of members.
JsonDict(n) == [kind |-> "json", type |-> "dict", items |-> <<>>, members |-> n]

\* A file whose text is a JSON number.
JsonNumber == [kind |-> "json", type |-> "number", items |-> <<>>, members |-> 0]

\* A file whose text is not JSON at all.
NotJson == [kind |-> "text", type |-> "none", items |-> <<>>, members |-> 0]

-----------------------------------------------------------------------------
(* Generator: main *)

GenIdle == gen_pc = "idle" /\ gen_i = 0 /\ logs = <<>>

AnaIdle ==
    /\ argv = <<>>
    /\ ana_pc = "idle"
    /\ ana_logs = NotJson
    /\ ana_idx = 0
    /\ analysis = NoFiles
    /\ timestamps = <<>>
    /\ console = <<>>
    /\ exit_status = -1

GenInit ==
    /\ files = NoFiles
    /\ gen_pc = "loop"
    /\ gen_i = 0
    /\ logs = <<>>
    /\ AnaIdle

\* A loop that rebinds the list instead of appending to it.
AppendEntry_Rebind(list, entry) == <<entry>>

\* logs.append(generate_log_entry(i))
AppendEntry(list, entry) == Append(list, entry)

\* The entries generate_log_entry(index) can return, over its random draws
\* (@@ makes the table explicit, so that it is computed once).
LogEntries ==
    [index \in 0..(NumLogs - 1) |-> {generate_log_entry(index, d) : d \in Draws}] @@ <<>>

\* One iteration of `for i in range(1000)`.
GenLoop ==
    /\ gen_pc = "loop"
    /\ gen_i < NumLogs
    /\ \E entry \in LogEntries[gen_i] : logs' = AppendEntry(logs, entry)
    /\ gen_i' = gen_i + 1
    /\ UNCHANGED <<files, gen_pc, ana_vars>>

\* with open(output_file, 'w') as f: json.dump(logs, f, indent=2)
GenDump ==
    /\ gen_pc = "loop"
    /\ gen_i = NumLogs
    /\ files' = (OutputFile :> JsonList(logs)) @@ files
    /\ gen_pc' = "done"
    /\ UNCHANGED <<gen_i, logs, ana_vars>>

GenNext == GenLoop \/ GenDump

GenSpec == GenInit /\ [][GenNext]_vars

-----------------------------------------------------------------------------
(* Analyzer: Python dict and Counter operations *)

\* The empty dict / Counter / defaultdict
EmptyDict == [key \in {} |-> key]

\* JSON null / Python None
None == [py_none |-> TRUE]

\* d.get(key, default)
Get(d, key, default) == IF key \in DOMAIN d THEN d[key] ELSE default

\* counter[key] += 1
Increment(counter, key) ==
    IF key \in DOMAIN counter
    THEN [counter EXCEPT ![key] = @ + 1]
    ELSE (key :> 1) @@ counter

\* defaultdict(list): d[key].append(item)
AppendTo(d, key, item) ==
    IF key \in DOMAIN d
    THEN [d EXCEPT ![key] = Append(@, item)]
    ELSE (key :> <<item>>) @@ d

RECURSIVE SumOver(_, _)
SumOver(f, keys) ==
    IF keys = {} THEN 0
    ELSE LET k == CHOOSE x \in keys : TRUE
         IN f[k] + SumOver(f, keys \ {k})

\* sum(counter.values())
CounterTotal(counter) == SumOver(counter, DOMAIN counter)

\* min(strings) and max(strings) of a non-empty list of str
\* The first element taken for the least one.
StrMin_First(seq) == seq[1]

StrMin(seq) ==
    seq[CHOOSE k \in DOMAIN seq : \A m \in DOMAIN seq : StrLeq(seq[k], seq[m])]

StrMax(seq) ==
    seq[CHOOSE k \in DOMAIN seq : \A m \in DOMAIN seq : StrLeq(seq[m], seq[k])]

-----------------------------------------------------------------------------
(* Analyzer: calculate_duration_minutes *)

IsDigit(c) == \E k \in 1..Len(Digits) : SubSeq(Digits, k, k) = c

DigitVal(c) == (CHOOSE k \in 1..Len(Digits) : SubSeq(Digits, k, k) = c) - 1

RECURSIVE StrToInt(_)
\* int(s) for a string of decimal digits
StrToInt(s) ==
    IF s = "" THEN 0
    ELSE 10 * StrToInt(SubSeq(s, 1, Len(s) - 1)) + DigitVal(SubSeq(s, Len(s), Len(s)))

AllDigits(s) == \A k \in 1..Len(s) : IsDigit(SubSeq(s, k, k))

IsLeap(y) == (y % 4 = 0 /\ y % 100 # 0) \/ y % 400 = 0

DaysInMonth(y, m) ==
    IF m = 2 THEN (IF IsLeap(y) THEN 29 ELSE 28)
    ELSE IF m \in {4, 6, 9, 11} THEN 30 ELSE 31

DaysBeforeMonth == <<0, 31, 59, 90, 120, 151, 181, 212, 243, 273, 304, 334>>

\* Days from 0001-01-01 to the given date (date.toordinal).
Ordinal(y, m, d) ==
    LET py == y - 1
    IN py * 365 + (py \div 4) - (py \div 100) + (py \div 400)
        + DaysBeforeMonth[m] + (IF m > 2 /\ IsLeap(y) THEN 1 ELSE 0) + d

(* datetime.fromisoformat(s.replace('Z', '+00:00')) succeeds on the timestamps  *)
(* of the form YYYY-MM-DDTHH:MM:SS.mmmZ that name a real instant; the other      *)
(* timestamps of the modelled inputs are not ISO dates at all, and it raises.    *)
IsoParseable(s) ==
    /\ Len(s) = 24
    /\ AllDigits(SubSeq(s, 1, 4)) /\ SubSeq(s, 5, 5) = "-"
    /\ AllDigits(SubSeq(s, 6, 7)) /\ SubSeq(s, 8, 8) = "-"
    /\ AllDigits(SubSeq(s, 9, 10)) /\ SubSeq(s, 11, 11) = "T"
    /\ AllDigits(SubSeq(s, 12, 13)) /\ SubSeq(s, 14, 14) = ":"
    /\ AllDigits(SubSeq(s, 15, 16)) /\ SubSeq(s, 17, 17) = ":"
    /\ AllDigits(SubSeq(s, 18, 19)) /\ SubSeq(s, 20, 20) = "."
    /\ AllDigits(SubSeq(s, 21, 23)) /\ SubSeq(s, 24, 24) = "Z"
    /\ StrToInt(SubSeq(s, 1, 4)) >= 1
    /\ StrToInt(SubSeq(s, 6, 7)) \in 1..12
    /\ StrToInt(SubSeq(s, 9, 10)) \in
            1..DaysInMonth(StrToInt(SubSeq(s, 1, 4)), StrToInt(SubSeq(s, 6, 7)))
    /\ StrToInt(SubSeq(s, 12, 13)) < 24
    /\ StrToInt(SubSeq(s, 15, 16)) < 60
    /\ StrToInt(SubSeq(s, 18, 19)) < 60

\* The day of the parsed instant, counted from 0001-01-01.
IsoDay(s) ==
    Ordinal(StrToInt(SubSeq(s, 1, 4)), StrToInt(SubSeq(s, 6, 7)), StrToInt(SubSeq(s, 9, 10)))

\* Milliseconds from midnight to the parsed instant.
IsoMillisOfDay(s) ==
    (StrToInt(SubSeq(s, 12, 13)) * 60 + StrToInt(SubSeq(s, 15, 16))) * 60000
        + StrToInt(SubSeq(s, 18, 19)) * 1000
        + StrToInt(SubSeq(s, 21, 23))

\* (end - start) in milliseconds
MillisBetween(start_time, end_time) ==
    (IsoDay(end_time) - IsoDay(start_time)) * 86400000
        + IsoMillisOfDay(end_time) - IsoMillisOfDay(start_time)

(* (end - start).total_seconds() / 60 as the exact fraction num/den of minutes; *)
(* the bare `except:` turns any parse failure into 0.                           *)
calculate_duration_minutes(start_time, end_time) ==
    IF IsoParseable(start_time) /\ IsoParseable(end_time)
    THEN [num |-> MillisBetween(start_time, end_time), den |-> 60000]
    ELSE [num |-> 0, den |-> 1]

-----------------------------------------------------------------------------
(* Analyzer: the inputs of the modelled runs *)

OtherFile == "other_logs.json"

DrawFor(app_name, container_name, severity, template, error) ==
    CHOOSE d \in Draws :
        /\ d.app_name = app_name /\ d.container_name = container_name
        /\ d.severity = severity /\ d.template = template /\ d.fill.error = error

Without(d, key) == [k \in DOMAIN d \ {key} |-> d[k]]

\* Records as the Generator writes them: an INFO, a WARN and an ERROR ("timeout").
InfoRecord == generate_log_entry(0, DrawFor("web-frontend", "nginx", "INFO", 1, "timeout"))
WarnRecord == generate_log_entry(1, DrawFor("redis", "redis", "WARN", 1, "timeout"))
ErrorRecord == generate_log_entry(2, DrawFor("user-service", "app", "ERROR", 2, "timeout"))

\* An ERROR record of the same application and container that has no "json" member.
BareErrorRecord ==
    Without(generate_log_entry(5, DrawFor("user-service", "app", "ERROR", 1, "timeout")), "json")

\* A WARN record with error details, whose kubernetes mapping names no pod, host or namespace.
DetailedWarnRecord ==
    [timestamp |-> TimestampStr(3), applicationName |-> "database",
     subsystemName |-> "postgres", severity |-> "WARN",
     text |-> "database connection pool exhausted",
     json |-> [kubernetes |-> [container_name |-> "postgres"],
               error_details |-> [error_code |-> "DB_CONN_001", retry_count |-> "3"]]]

\* A record that has no "severity" member.
NoSeverityRecord == Without(InfoRecord, "severity")

\* An INFO record whose timestamp is not an ISO date.
BadTimeRecord == [InfoRecord EXCEPT !.timestamp = "yesterday"]

InputRecords == {InfoRecord, WarnRecord, ErrorRecord, BareErrorRecord,
                 DetailedWarnRecord, NoSeverityRecord, BadTimeRecord}

InputLists == UNION {[1..n -> InputRecords] : n \in 0..MaxInput}

InputDocs == {NotJson, JsonNumber, JsonDict(0), JsonDict(1)}
                \cup {JsonList(l) : l \in InputLists}

FileSystems == {NoFiles} \cup {(name :> doc) : name \in {OutputFile, OtherFile}, doc \in InputDocs}

\* The members every LogRecord has (the members analyze_logs subscripts).
RequiredKeys == {"timestamp", "applicationName", "subsystemName", "severity", "text"}

\* The file's content is a JSON array of LogRecord-shaped elements.
WellFormed(doc) ==
    /\ doc.kind = "json"
    /\ doc.type = "list"
    /\ \A k \in DOMAIN doc.items : RequiredKeys \subseteq DOMAIN doc.items[k]

-----------------------------------------------------------------------------
(* Analyzer: main and load_logs *)

\* log_file of main(): sys.argv[1] when given, else the default name
LogFile == IF Len(argv) > 0 THEN argv[1] ELSE OutputFile

AnaInit ==
    /\ GenIdle
    /\ files \in FileSystems
    /\ argv \in {<<>>, <<OtherFile>>}
    /\ ana_pc = "main"
    /\ ana_logs = NotJson
    /\ ana_idx = 0
    /\ analysis = EmptyDict
    /\ timestamps = <<>>
    /\ console = <<>>
    /\ exit_status = -1

\* The status sys.exit passes in load_logs' two except clauses.
LoadFailureStatus == 1

\* A missing file reported but then treated as an empty list instead of ending the run.
AnaLoadNotFound_Continues ==
    /\ ana_pc = "main"
    /\ LogFile \notin DOMAIN files
    /\ console' = console \o <<"loading", "not_found", "hint_generate">>
    /\ ana_logs' = JsonList(<<>>)
    /\ ana_pc' = "analyze_logs"
    /\ UNCHANGED <<files, gen_vars, argv, ana_idx, analysis, timestamps, exit_status>>

\* load_logs: except FileNotFoundError: print, print, sys.exit(1)
AnaLoadNotFound ==
    /\ ana_pc = "main"
    /\ LogFile \notin DOMAIN files
    /\ console' = console \o <<"loading", "not_found", "hint_generate">>
    /\ exit_status' = LoadFailureStatus
    /\ ana_pc' = "exited"
    /\ UNCHANGED <<files, gen_vars, argv, ana_logs, ana_idx, analysis, timestamps>>

\* load_logs: except json.JSONDecodeError: print, sys.exit(1)
AnaLoadInvalidJson ==
    /\ ana_pc = "main"
    /\ LogFile \in DOMAIN files
    /\ files[LogFile].kind # "json"
    /\ console' = console \o <<"loading", "invalid_json">>
    /\ exit_status' = LoadFailureStatus
    /\ ana_pc' = "exited"
    /\ UNCHANGED <<files, gen_vars, argv, ana_logs, ana_idx, analysis, timestamps>>

\* load_logs: return json.load(f)
AnaLoadOk ==
    /\ ana_pc = "main"
    /\ LogFile \in DOMAIN files
    /\ files[LogFile].kind = "json"
    /\ console' = console \o <<"loading">>
    /\ ana_logs' = files[LogFile]
    /\ ana_pc' = "analyze_logs"
    /\ UNCHANGED <<files, gen_vars, argv, ana_idx, analysis, timestamps, exit_status>>

-----------------------------------------------------------------------------
(* Analyzer: analyze_logs *)

\* The `analysis` dict as analyze_logs builds it before the loop.
NewAnalysis(total) ==
    [total_logs |-> total,
     severity_distribution |-> EmptyDict,
     application_distribution |-> EmptyDict,
     container_distribution |-> EmptyDict,
     namespace_distribution |-> EmptyDict,
     error_patterns |-> EmptyDict,
     time_range |-> EmptyDict,
     kubernetes_info |-> [unique_pods |-> {}, unique_hosts |-> {},
                          environments |-> EmptyDict, versions |-> EmptyDict]]

\* len(logs) raises TypeError on a JSON number.
HasLen(doc) == doc.type \in {"list", "dict"}

\* len(logs): the elements of an array, the members of an object
DocLen(doc) == IF doc.type = "list" THEN Len(doc.items) ELSE doc.members

\* k8s_data = log.get("json", {}).get("kubernetes", {})
K8sData(log) == Get(Get(log, "json", EmptyDict), "kubernetes", EmptyDict)

\* `if k8s_data:` -- a non-empty mapping
Truthy(d) == DOMAIN d # {}

\* The WARN severity left out of the test.
IsProblem_ErrorOnly(severity) == severity = "ERROR"

\* if log["severity"] in ["ERROR", "WARN"]
IsProblem(severity) == severity \in {"ERROR", "WARN"}

\* error_key = f"{log['applicationName']}:{log['subsystemName']}"
ErrorKey(log) == log["applicationName"] \o ":" \o log["subsystemName"]

\* The dict appended to analysis["error_patterns"][error_key]
ProblemEntry(log) ==
    [timestamp |-> log["timestamp"],
     severity |-> log["severity"],
     message |-> log["text"],
     error_details |-> Get(Get(log, "json", EmptyDict), "error_details", None)]

\* The "Kubernetes metadata" block of the loop body
CountKubernetes(a, k8s_data) ==
    IF Truthy(k8s_data)
    THEN LET labels == Get(k8s_data, "labels", EmptyDict)
         IN [a EXCEPT
                !.namespace_distribution =
                    Increment(@, Get(k8s_data, "namespace_name", "unknown")),
                !.kubernetes_info =
                    [unique_pods |-> @.unique_pods \cup {Get(k8s_data, "pod_name", "")},
                     unique_hosts |-> @.unique_hosts \cup {Get(k8s_data, "host", "")},
                     environments |-> IF "environment" \in DOMAIN labels
                                      THEN Increment(@.environments, labels["environment"])
                                      ELSE @.environments,
                     versions |-> IF "version" \in DOMAIN labels
                                  THEN Increment(@.versions, labels["version"])
                                  ELSE @.versions]]
    ELSE a

\* The "Error pattern analysis" block of the loop body
CollectProblem(a, log) ==
    IF IsProblem(log["severity"])
    THEN [a EXCEPT !.error_patterns = AppendTo(@, ErrorKey(log), ProblemEntry(log))]
    ELSE a

\* The "Basic counts" block of the loop body
CountBasic(a, log) ==
    [a EXCEPT !.severity_distribution = Increment(@, log["severity"]),
              !.application_distribution = Increment(@, log["applicationName"]),
              !.container_distribution = Increment(@, log["subsystemName"])]

\* One pass of the loop body over a dict that has every member the body subscripts.
AnalyzeOne(a, log) == CollectProblem(CountKubernetes(CountBasic(a, log), K8sData(log)), log)

(* The loop body raises on an element that is not a dict (iterating a JSON      *)
(* object yields its keys: str subscripted by str is a TypeError) or that lacks *)
(* a member the body subscripts (KeyError).                                     *)
BodyRaises(doc, k) ==
    IF doc.type # "list" THEN TRUE
    ELSE IF {"severity", "applicationName", "subsystemName", "timestamp"}
                \ DOMAIN doc.items[k] # {} THEN TRUE
    ELSE IsProblem(doc.items[k]["severity"]) /\ "text" \notin DOMAIN doc.items[k]

\* An exception nothing catches: the interpreter prints a traceback and exits 1.
UncaughtStatus == 1

\* analysis = {"total_logs": len(logs), ...}; timestamps = []
AnaBegin ==
    /\ ana_pc = "analyze_logs"
    /\ HasLen(ana_logs)
    /\ analysis' = NewAnalysis(DocLen(ana_logs))
    /\ timestamps' = <<>>
    /\ ana_idx' = 0
    /\ ana_pc' = "loop"
    /\ UNCHANGED <<files, gen_vars, argv, ana_logs, console, exit_status>>

AnaBeginRaises ==
    /\ ana_pc = "analyze_logs"
    /\ ~HasLen(ana_logs)
    /\ console' = Append(console, "traceback")
    /\ exit_status' = UncaughtStatus
    /\ ana_pc' = "crashed"
    /\ UNCHANGED <<files, gen_vars, argv, ana_logs, ana_idx, analysis, timestamps>>

\* One iteration of `for log in logs:`
AnaStep ==
    /\ ana_pc = "loop"
    /\ ana_idx < DocLen(ana_logs)
    /\ ~BodyRaises(ana_logs, ana_idx + 1)
    /\ analysis' = AnalyzeOne(analysis, ana_logs.items[ana_idx + 1])
    /\ timestamps' = Append(timestamps, ana_logs.items[ana_idx + 1]["timestamp"])
    /\ ana_idx' = ana_idx + 1
    /\ UNCHANGED <<files, gen_vars, argv, ana_logs, ana_pc, console, exit_status>>

\* An iteration that raises: the process dies with whatever the body had counted.
AnaStepRaises ==
    /\ ana_pc = "loop"
    /\ ana_idx < DocLen(ana_logs)
    /\ BodyRaises(ana_logs, ana_idx + 1)
    /\ console' = Append(console, "traceback")
    /\ exit_status' = UncaughtStatus
    /\ ana_pc' = "crashed"
    /\ UNCHANGED <<files, gen_vars, argv, ana_logs, ana_idx, analysis, timestamps>>

\* analysis["time_range"] of the "Time range analysis" block
TimeRange(stamps) ==
    IF stamps # <<>>
    THEN [start |-> StrMin(stamps), end |-> StrMax(stamps),
          duration_minutes |-> calculate_duration_minutes(StrMin(stamps), StrMax(stamps))]
    ELSE EmptyDict

\* The end of analyze_logs: time range, then the sets become their sizes.
AnaSummarize ==
    /\ ana_pc = "loop"
    /\ ana_idx = DocLen(ana_logs)
    /\ analysis' = [analysis EXCEPT
            !.time_range = TimeRange(timestamps),
            !.kubernetes_info.unique_pods = Cardinality(@),
            !.kubernetes_info.unique_hosts = Cardinality(@)]
    /\ ana_pc' = "print"
    /\ UNCHANGED <<files, gen_vars, argv, ana_logs, ana_idx, timestamps, console, exit_status>>

\* print_analysis(analysis); print_troubleshooting_examples(); the closing lines
AnaPrint ==
    /\ ana_pc = "print"
    /\ console' = console \o <<"report", "examples", "complete">>
    /\ exit_status' = 0
    /\ ana_pc' = "done"
    /\ UNCHANGED <<files, gen_vars, argv, ana_logs, ana_idx, analysis, timestamps>>

AnaNext ==
    \/ AnaLoadNotFound
    \/ AnaLoadInvalidJson
    \/ AnaLoadOk
    \/ AnaBegin
    \/ AnaBeginRaises
    \/ AnaStep
    \/ AnaStepRaises
    \/ AnaSummarize
    \/ AnaPrint

AnaSpec == AnaInit /\ [][AnaNext]_vars

Init == GenInit \/ AnaInit

Next == GenNext \/ AnaNext

Spec == Init /\ [][Next]_vars

-----------------------------------------------------------------------------
(* Properties of the Generator (GenSpec) *)

\* The collection the Generator serialized.
Output == files[OutputFile].items

Written == gen_pc = "done" /\ OutputFile \in DOMAIN files

TopLevelFields == {"timestamp", "applicationName", "subsystemName", "severity", "text", "json"}

KubernetesFields == {"namespace_name", "pod_name", "container_id", "host", "labels"}

(* C1: a finished Generator run has serialized a list of exactly NumLogs       *)
(* records; each has timestamp, applicationName, subsystemName, severity, text *)
(* and json.kubernetes with namespace, pod name, container id, host and        *)
(* labels, and its severity is INFO, WARN or ERROR.                            *)
C1_ExactlyNRecordsWithFields ==
    gen_pc = "done" =>
        /\ OutputFile \in DOMAIN files
        /\ files[OutputFile].kind = "json" /\ files[OutputFile].type = "list"
        /\ Len(Output) = NumLogs
        /\ \A k \in DOMAIN Output :
            /\ TopLevelFields \subseteq DOMAIN Output[k]
            /\ "kubernetes" \in DOMAIN Output[k].json
            /\ KubernetesFields \subseteq DOMAIN Output[k].json.kubernetes
            /\ Output[k].severity \in {"INFO", "WARN", "ERROR"}

C1_Witness ==
    /\ Written
    /\ Len(Output) = NumLogs
    /\ \E i, j \in DOMAIN Output : Output[i].severity = "INFO" /\ Output[j].severity = "ERROR"

(* C2: the serialized collection is sorted by timestamp: for positions i < j   *)
(* the timestamp string of record i is less than or equal to that of record j. *)
C2_SortedByTimestamp ==
    Written =>
        \A i, j \in DOMAIN Output :
            i < j => StrLeq(Output[i].timestamp, Output[j].timestamp)

C2_Witness ==
    /\ Written
    /\ \E i, j \in DOMAIN Output : i < j /\ StrLess(Output[i].timestamp, Output[j].timestamp)

(* C3: every serialized record's applicationName, subsystemName and namespace  *)
(* are those of one catalog application: the subsystem is one of its           *)
(* containers and the namespace is its namespace.                              *)
C3_CatalogTriple ==
    Written =>
        \A k \in DOMAIN Output :
            \E a \in DOMAIN APPLICATIONS :
                /\ Output[k].applicationName = a
                /\ Output[k].subsystemName \in Choice(APPLICATIONS[a].containers)
                /\ Output[k].json.kubernetes.namespace_name = APPLICATIONS[a].namespace

C3_Witness ==
    /\ Written
    /\ \E k \in DOMAIN Output :
        Output[k].applicationName = "payment-service" /\ Output[k].subsystemName = "app"

-----------------------------------------------------------------------------
(* The texts a template pool can render *)

HasPool(container_name, severity) ==
    /\ container_name \in DOMAIN LOG_TEMPLATES
    /\ severity \in DOMAIN LOG_TEMPLATES[container_name]

\* Every text the pool (container, severity) renders for an entry of the given
\* application and index.
RenderedPool(app_name, container_name, severity, index) ==
    {Format(LOG_TEMPLATES[container_name][severity][t], index, d) :
        t \in DOMAIN LOG_TEMPLATES[container_name][severity],
        d \in {x \in Draws : x.app_name = app_name /\ x.container_name = container_name}}

AllContainers == UNION {Choice(APPLICATIONS[a].containers) : a \in Choice(AppNames)}

\* RenderedPool, tabulated; the empty set where the pool does not exist.
PoolTexts ==
    [app_name \in Choice(AppNames), container_name \in AllContainers,
     severity \in {"INFO", "WARN", "ERROR"}, index \in 0..(NumLogs - 1) |->
        IF HasPool(container_name, severity)
        THEN RenderedPool(app_name, container_name, severity, index)
        ELSE {}] @@ <<>>

\* GenericText, tabulated.
GenericTexts ==
    [container_name \in AllContainers, index \in 0..(NumLogs - 1) |->
        GenericText(container_name, index)] @@ <<>>

\* The record at position k of the output carries the generic text of its container.
IsGeneric(k) == Output[k].text = GenericTexts[Output[k].subsystemName, k - 1]

\* The record at position k of the output carries a text of the pool (its container, sev).
FromPool(k, sev) ==
    Output[k].text \in
        PoolTexts[Output[k].json.kubernetes.labels.app, Output[k].subsystemName, sev, k - 1]

(* C9 as stated: a record's text is drawn from the pool of its own (container, *)
(* severity); when that exact pool does not exist the text is the generic      *)
(* string, and no record carries a text of a pool of another severity.         *)
C9_ExactPoolOrGeneric ==
    Written =>
        \A k \in DOMAIN Output :
            /\ IF HasPool(Output[k].subsystemName, Output[k].severity)
               THEN FromPool(k, Output[k].severity)
               ELSE IsGeneric(k)
            /\ \A sev \in {"INFO", "WARN", "ERROR"} \ {Output[k].severity} : ~FromPool(k, sev)

(* C9 amended: the text is drawn from the pool of the record's own (container, *)
(* severity) when that pool exists; when the container has pools but none for  *)
(* this severity, from the container's INFO pool; the generic string only when *)
(* the container has no pools at all.                                          *)
C9_PoolInfoFallbackOrGeneric ==
    Written =>
        \A k \in DOMAIN Output :
            IF HasPool(Output[k].subsystemName, Output[k].severity)
            THEN FromPool(k, Output[k].severity)
            ELSE IF Output[k].subsystemName \in DOMAIN LOG_TEMPLATES
            THEN FromPool(k, "INFO")
            ELSE IsGeneric(k)

C9_Witness ==
    /\ Written
    /\ \E k \in DOMAIN Output :
        /\ Output[k].subsystemName = "nginx"
        /\ Output[k].severity = "WARN"
        /\ FromPool(k, "INFO")
    /\ \E k \in DOMAIN Output :
        Output[k].subsystemName = "grafana" /\ IsGeneric(k)

-----------------------------------------------------------------------------

\* The record carries error-detail metadata under json.
HasErrorDetails(r) == "error_details" \in DOMAIN r.json \/ "aws" \in DOMAIN r.json

(* C10: a serialized record whose text contains "database" carries error-detail *)
(* metadata under json, so does one whose text contains both "service" and      *)
(* "unavailable", and a record matching neither carries none.                   *)
C10_ErrorDetailsAttached ==
    Written =>
        \A k \in DOMAIN Output :
            LET r == Output[k]
                matches == \/ Contains(r.text, "database")
                           \/ Contains(r.text, "service") /\ Contains(r.text, "unavailable")
            IN HasErrorDetails(r) <=> matches

-----------------------------------------------------------------------------
(* Properties of the Analyzer (AnaSpec) *)

\* The run has ended.
Ended == ana_pc \in {"exited", "crashed", "done"}

\* The input file exists and the run was given it.
InputPresent == ana_pc # "idle" /\ LogFile \in DOMAIN files

\* The list the run analyzes, once loaded.
Items == ana_logs.items

\* analyze_logs has consumed every element.
Analyzed == ana_pc \in {"print", "done"}

RECURSIVE CountWhere(_, _)
\* The number of elements of seq whose severity is in sevs.
CountWhere(seq, sevs) ==
    IF seq = <<>> THEN 0
    ELSE (IF Head(seq)["severity"] \in sevs THEN 1 ELSE 0) + CountWhere(Tail(seq), sevs)

\* The categories of the error taxonomy.
Categories == {"Connection-Refused", "Timeout", "Database-Issue", "Upstream-Issue",
               "Certificate-Issue", "Other"}

\* The members of the analysis that are tables of counts per category.
CategoryTables ==
    {key \in DOMAIN analysis \ {"total_logs", "kubernetes_info", "time_range", "error_patterns"} :
        DOMAIN analysis[key] \subseteq Categories}

(* C4: the analysis classifies every ERROR record into exactly one category of *)
(* the taxonomy: it holds a table over the categories whose counts sum to the  *)
(* number of ERROR records, and for the input of one INFO, one WARN and one    *)
(* ERROR containing "timeout" that table counts 1 under Timeout and nothing    *)
(* elsewhere.                                                                  *)
C4_ErrorsClassified ==
    Analyzed =>
        \E key \in CategoryTables :
            /\ CounterTotal(analysis[key]) = CountWhere(Items, {"ERROR"})
            /\ Items = <<InfoRecord, WarnRecord, ErrorRecord>>
                    => analysis[key] = ("Timeout" :> 1)

\* The run printed a diagnostic of an input it could not use.
Diagnosed == \E k \in DOMAIN console : console[k] \in {"invalid_json", "traceback"}

Reported == \E k \in DOMAIN console : console[k] = "report"

(* C5: when the input file exists but its content is not a JSON array of       *)
(* LogRecord-shaped elements, the run ends with a diagnostic and a non-zero    *)
(* status and prints no report.                                                *)
C5_MalformedRejected ==
    (Ended /\ InputPresent /\ ~WellFormed(files[LogFile])) =>
        /\ Diagnosed
        /\ exit_status # 0
        /\ ~Reported

(* C6: a run on a missing path prints the not-found message and ends with a    *)
(* non-zero status before analyze_logs or the report runs; a run on a present, *)
(* well-formed input never ends but by printing the report with status zero.   *)
C6_NotFoundOrReport ==
    /\ (ana_pc # "idle" /\ LogFile \notin DOMAIN files) =>
            /\ ana_pc \in {"main", "exited"}
            /\ analysis = EmptyDict /\ ana_idx = 0 /\ ~Reported
            /\ Ended => /\ exit_status # 0 /\ exit_status # -1
                        /\ \E k \in DOMAIN console : console[k] = "not_found"
    /\ (InputPresent /\ WellFormed(files[LogFile])) =>
            /\ ana_pc \notin {"exited", "crashed"}
            /\ exit_status \in {-1, 0}
            /\ ana_pc = "done" => exit_status = 0 /\ Reported

C6_Witness ==
    /\ ana_pc = "exited"
    /\ argv = <<OtherFile>>
    /\ OutputFile \in DOMAIN files
    /\ LogFile \notin DOMAIN files
    /\ exit_status = 1

(* C7: for a non-empty input, the counts of each distribution table (severity, *)
(* application, container, namespace) sum to the total record count.           *)
C7_TablesSumToTotal ==
    (Analyzed /\ analysis.total_logs > 0) =>
        /\ CounterTotal(analysis.severity_distribution) = analysis.total_logs
        /\ CounterTotal(analysis.application_distribution) = analysis.total_logs
        /\ CounterTotal(analysis.container_distribution) = analysis.total_logs
        /\ CounterTotal(analysis.namespace_distribution) = analysis.total_logs

RECURSIVE ProblemsKeyed(_, _)
\* The WARN and ERROR records of seq whose application and subsystem give `key`,
\* in order, each as (timestamp, severity, text).
ProblemsKeyed(seq, key) ==
    IF seq = <<>> THEN <<>>
    ELSE (IF /\ Head(seq)["severity"] \in {"WARN", "ERROR"}
             /\ Head(seq)["applicationName"] \o ":" \o Head(seq)["subsystemName"] = key
          THEN << <<Head(seq)["timestamp"], Head(seq)["severity"], Head(seq)["text"]>> >>
          ELSE <<>>)
            \o ProblemsKeyed(Tail(seq), key)

\* The (timestamp, severity, message) of the entries of a bucket.
Retained(bucket) ==
    [k \in DOMAIN bucket |-> <<bucket[k].timestamp, bucket[k].severity, bucket[k].message>>]

\* The elements the loop of analyze_logs has consumed.
Consumed == SubSeq(Items, 1, ana_idx)

(* C8: at every point of the pass, each bucket of error_patterns holds exactly *)
(* the WARN and ERROR records consumed so far that have its application and     *)
(* subsystem, once each, in input order, with timestamp, severity and text; no  *)
(* other bucket exists, no INFO record is in a bucket, and the bucket sizes sum *)
(* to the number of WARN and ERROR records.                                     *)
C8_ProblemBuckets ==
    ana_pc \in {"loop", "print", "done"} =>
        LET buckets == analysis.error_patterns
            keys == {Consumed[k]["applicationName"] \o ":" \o Consumed[k]["subsystemName"] :
                        k \in {j \in DOMAIN Consumed :
                                    Consumed[j]["severity"] \in {"WARN", "ERROR"}}}
        IN /\ DOMAIN buckets = keys
           /\ \A key \in keys : Retained(buckets[key]) = ProblemsKeyed(Consumed, key)
           /\ \A key \in DOMAIN buckets : \A k \in DOMAIN buckets[key] :
                    buckets[key][k].severity # "INFO"
           /\ SumOver([key \in DOMAIN buckets |-> Len(buckets[key])], DOMAIN buckets)
                    = CountWhere(Consumed, {"WARN", "ERROR"})

C8_Witness ==
    /\ ana_pc = "done"
    /\ Items = <<ErrorRecord, InfoRecord, BareErrorRecord>>
    /\ Len(analysis.error_patterns["user-service:app"]) = 2

-----------------------------------------------------------------------------

\* The values the kubernetes metadata of the records of seq give the member field.
Named(seq, field) ==
    {K8sData(seq[k])[field] : k \in {j \in DOMAIN seq : field \in DOMAIN K8sData(seq[j])}}

(* C11: after the pass the analysis reports as unique pods and unique hosts the *)
(* number of distinct pod names and of distinct hosts that occur in the input   *)
(* records; a record whose kubernetes metadata names no pod or no host adds     *)
(* nothing to the respective number.                                            *)
C11_UniquePodsAndHosts ==
    Analyzed =>
        /\ analysis.kubernetes_info.unique_pods = Cardinality(Named(Items, "pod_name"))
        /\ analysis.kubernetes_info.unique_hosts = Cardinality(Named(Items, "host"))

-----------------------------------------------------------------------------

\* The timestamps of the input records.
Stamps == {Items[k]["timestamp"] : k \in DOMAIN Items}

\* The indexes of the generated timestamps among the inputs.
StampIndexes == 0..5

(* C12: after the pass over a non-empty input, time_range.start is the least    *)
(* and time_range.end the greatest timestamp of the records; when they are the  *)
(* generated timestamps of the indexes i and j the duration is the j - i        *)
(* seconds between them, in minutes; when either cannot be parsed the duration  *)
(* is zero, and the run still ends by printing the report with status zero.     *)
C12_TimeRange ==
    (Analyzed /\ Items # <<>>) =>
        LET range == analysis.time_range
            duration == range.duration_minutes
        IN /\ range.start \in Stamps /\ \A t \in Stamps : StrLeq(range.start, t)
           /\ range.end \in Stamps /\ \A t \in Stamps : StrLeq(t, range.end)
           /\ \A i, j \in StampIndexes :
                (range.start = TimestampStr(i) /\ range.end = TimestampStr(j))
                    => duration.num * 60 = (j - i) * duration.den
           /\ (~IsoParseable(range.start) \/ ~IsoParseable(range.end)) => duration.num = 0
           /\ ana_pc = "done" => (Reported /\ exit_status = 0)

C12_Witness ==
    /\ ana_pc = "done"
    /\ Items = <<ErrorRecord, BadTimeRecord, InfoRecord>>
    /\ analysis.time_range.start = InfoRecord.timestamp
    /\ analysis.time_range.end = "yesterday"
    /\ analysis.time_range.duration_minutes.num = 0
    /\ Reported

====
